---- MODULE Spec2Model ----
(***************************************************************************)
(* Model of story_task_switcher.py: the Flask controller that switches a   *)
(* workstation between art mode (comfyui) and story mode (tabbyapi plus    *)
(* silly-tavern) through systemctl, reports which backends are active, and *)
(* probes the ports; and of the browser-side readiness poller of           *)
(* switchAndOpen.                                                          *)
(*                                                                         *)
(* The external service manager is the variable active.  A command that    *)
(* exits 0 takes effect (stop: inactive, start: active); a command that    *)
(* exits non-zero or cannot be executed changes nothing.  The server is    *)
(* multi-threaded (waitress, or Flask's threaded development server), so   *)
(* each handler is split at its blocking subprocess calls.                 *)
(***************************************************************************)
EXTENDS Integers, Sequences, FiniteSets, TLC

\* ---------------------------------------------------------------- bounds
\* Number of server threads that serve /focus requests concurrently.
NumThreads == 2

\* Longest startup of a service, in seconds, after which its port is bound.
MaxStartupSec == 4

\* ------------------------------------------------- static configuration
\* self.services
services == [comfy |-> "comfyui", tabby |-> "tabbyapi", silly |-> "silly-tavern"]

Roles == {"comfy", "tabby", "silly"}
ServiceNames == {services[r] : r \in Roles}

\* The mode values a /focus/<mode> request can carry; "other" stands for
\* every string that is neither "art" nor "story".
Modes == {"art", "story", "other"}

\* Outcomes of subprocess.run for a stop or start command: exit status 0,
\* a non-zero exit status, or an OSError because the command cannot be run.
CmdOutcomes == {"ok", "nonzero", "raise"}

\* Outcomes of subprocess.call for `systemctl is-active`: the manager
\* answers (0 when active, non-zero when not), the query itself fails with
\* a non-zero status, or an OSError because the command cannot be run.
QueryOutcomes == {"answer", "nonzero", "raise"}

Threads == 1 .. NumThreads

\* comfy_port and silly_tavern_port of the controller
comfy_port == 8188
silly_tavern_port == 8000
Ports == {comfy_port, silly_tavern_port}

\* Outcomes of the TCP probe: connect_ex ran (0 when a listener accepts,
\* an error number when refused or timed out), or the socket call raised.
ProbeOutcomes == {"connect", "timeout", "raise"}

\* Outcomes of the browser's fetch of /check_ready: a JSON answer, or a
\* rejected fetch / unparsable body, which the loop's catch swallows.
FetchOutcomes == {"json", "throw"}

\* The port never binds.
Never == 0 - 1
\* Startup times of a service: whole seconds, or never.
StartupDelays == {1000 * k : k \in 0 .. MaxStartupSec} \cup {Never}

\* switchAndOpen: maxAttempts
maxAttempts == 120

\* Mutant: a pause of one second between attempts.
PollIntervalMs_1s == 2 * 500

\* switchAndOpen: the setTimeout of the polling loop, in ms
PollIntervalMs == 500

VARIABLES
    active,     \* external manager: service name -> is the unit active
    fpc,        \* per thread: "idle" or "run" (inside switch_mode)
    fmode,      \* per thread: mode of the /focus call in flight, else "none"
    issued,     \* per thread: stop/start requests the call in flight has made
    ret,        \* history: the /focus call that returned last, and its status
    epCalls,    \* history: switches begun since one last began on a free server
    epOk,       \* history: every command of those switches exited 0
    log,        \* history: their requests in order, for up to two switches
    settled,    \* history: mode of the last switch, if it ran alone and all ok
    lastSolo,   \* history: the switch that returned last, if it ran alone
    pred,       \* history: the switch that the one in flight directly follows
    before,     \* history: the backends active when the last switch began
    spc,        \* /status handler: "idle", or the role it queries next
    sres,       \* /status handler: the entries computed so far
    sret,       \* the /status call that returned last: status code and map
    seen,       \* history: manager states since the /status call began
    qtruth,     \* history: per role, the manager's state when it was queried
    answered,   \* history: the roles whose query the manager answered
    listening,  \* environment: port -> a listener accepts connections on it
    bindAt,     \* environment: port -> ms after /focus returns when it binds
    now,        \* ms elapsed since the poller's /focus request returned
    ppc,        \* switchAndOpen: "idle", "focus", "poll", "open" or "done"
    pmode,      \* switchAndOpen: its mode argument
    i,          \* switchAndOpen: loop index of the polling loop
    serviceReady, \* switchAndOpen: a check_ready answer was ready
    pclean,     \* history: no check_ready query of this poll failed
    queries,    \* history: check_ready queries this poll has issued
    built,      \* the controller is constructed and serves requests
    ctor,       \* history: the requests __init__ made
    cret        \* the /check_ready call that returned last, and its probe

focusVars == <<fpc, fmode, issued>>
histVars == <<ret, epCalls, epOk, log, settled, lastSolo, pred, before>>
statusVars == <<spc, sres, sret, seen, qtruth, answered>>
pollVars == <<listening, bindAt, now, ppc, pmode, i, serviceReady, pclean,
              queries>>
serverVars == <<built, ctor, cret>>
vars == <<active, focusVars, histVars, statusVars, pollVars, serverVars>>

NoCall == [mode |-> "none", issued |-> << >>, code |-> 0, ok |-> FALSE,
           active |-> {}]
NoRet == [mode |-> "none", issued |-> << >>, code |-> 0]
NoStatus == [code |-> 0, map |-> << >>]
NoReady == [role |-> "none", code |-> 0, ready |-> FALSE, probed |-> FALSE,
            bound |-> FALSE, pout |-> "none"]

ActiveSet(a) == {s \in ServiceNames : a[s]}

\* ------------------------------------------------------ ServiceManager
\* Mutant: a start that toggles the unit instead of starting it.
systemctl_toggle(a, op, svc, out) ==
    IF out = "ok"
    THEN [a EXCEPT ![svc] = IF op = "start" THEN ~a[svc] ELSE FALSE]
    ELSE a

\* Effect of `systemctl <op> <svc>` on the manager.
systemctl(a, op, svc, out) ==
    IF out = "ok" THEN [a EXCEPT ![svc] = (op = "start")] ELSE a

\* _stop_service: returncode == 0
stop_service(a, svc, out) ==
    [active |-> systemctl(a, "stop", svc, out), ret |-> (out = "ok")]

\* _start_service: returncode == 0
start_service(a, svc, out) ==
    [active |-> systemctl(a, "start", svc, out), ret |-> (out = "ok")]

\* Mutant: the comparison of the exit status inverted (result != 0).
is_service_active_inverted(a, svc, qout) == ~(qout = "answer" /\ a[svc])

\* Mutant: a query that cannot be answered counts as active.
is_service_active_failopen(a, svc, qout) == qout # "answer" \/ a[svc]

\* _is_service_active: result == 0
is_service_active(a, svc, qout) == qout = "answer" /\ a[svc]

\* ------------------------------------------------------- ModeController
\* Mutant: art mode that starts comfyui without stopping tabbyapi.
switch_to_art_mode_nostop ==
    << <<"start", services["comfy"]>> >>

\* Mutant: art mode that stops silly-tavern with tabbyapi.
switch_to_art_mode_stopsilly ==
    << <<"stop", services["tabby"]>>,
       <<"stop", services["silly"]>>,
       <<"start", services["comfy"]>> >>

\* Mutant: art mode that starts comfyui before it stops tabbyapi.
switch_to_art_mode_startfirst ==
    << <<"start", services["comfy"]>>, <<"stop", services["tabby"]>> >>

\* _switch_to_art_mode: the calls it makes, in order
switch_to_art_mode ==
    << <<"stop", services["tabby"]>>, <<"start", services["comfy"]>> >>

\* Mutant: story mode that starts tabbyapi before it stops comfyui.
switch_to_story_mode_startfirst ==
    << <<"start", services["tabby"]>>,
       <<"stop", services["comfy"]>>,
       <<"start", services["silly"]>> >>

\* _switch_to_story_mode: the calls it makes, in order
switch_to_story_mode ==
    << <<"stop", services["comfy"]>>,
       <<"start", services["tabby"]>>,
       <<"start", services["silly"]>> >>

\* switch_mode: which switch the route runs for a mode value
switch_mode(mode) ==
    IF mode = "art" THEN switch_to_art_mode
    ELSE IF mode = "story" THEN switch_to_story_mode
    ELSE << >>

InFlight == {t \in Threads : fpc[t] = "run"}

\* Mutant: a route that serializes the switches with a lock.
MayEnter_locked(t) == InFlight = {}

\* Whether thread t may enter the route while other calls are in flight:
\* the route takes no lock.
MayEnter(t) == TRUE

\* A /focus/<mode> request is dispatched to thread t.  A mode that is
\* neither "art" nor "story" falls through both branches and the route
\* returns '', 204 at once.
FocusBegin(t, mode) ==
    /\ fpc[t] = "idle"
    /\ MayEnter(t)
    /\ IF switch_mode(mode) = << >>
       THEN UNCHANGED <<fpc, fmode, issued>>
       ELSE /\ fpc' = [fpc EXCEPT ![t] = "run"]
            /\ fmode' = [fmode EXCEPT ![t] = mode]
            /\ issued' = [issued EXCEPT ![t] = << >>]
    /\ UNCHANGED active

\* Thread t runs the next _stop_service/_start_service call of its switch.
\* An OSError of subprocess.run is caught nowhere: it leaves the route and
\* Flask answers 500.  After the last call the route returns '', 204.
FocusCmd(t, out) ==
    /\ fpc[t] = "run"
    /\ LET plan == switch_mode(fmode[t])
           cmd == plan[Len(issued[t]) + 1]
           r == IF cmd[1] = "stop" THEN stop_service(active, cmd[2], out)
                ELSE start_service(active, cmd[2], out)
           iss == Append(issued[t], cmd)
       IN /\ active' = r.active
          /\ IF out = "raise" \/ Len(iss) = Len(plan)
             THEN /\ fpc' = [fpc EXCEPT ![t] = "idle"]
                  /\ fmode' = [fmode EXCEPT ![t] = "none"]
                  /\ issued' = [issued EXCEPT ![t] = << >>]
             ELSE /\ issued' = [issued EXCEPT ![t] = iss]
                  /\ UNCHANGED <<fpc, fmode>>

\* The response of the route, recorded beside FocusBegin: '', 204 at once
\* for a mode that runs no switch.
RetBegin(t, mode) ==
    ret' = IF switch_mode(mode) = << >>
           THEN [mode |-> mode, issued |-> << >>, code |-> 204]
           ELSE ret

\* The response of the route, recorded beside FocusCmd: 500 when the
\* command raised, '', 204 after the last command.
RetCmd(t, out) ==
    ret' = IF fpc'[t] = "idle"
           THEN [mode |-> fmode[t],
                 issued |-> Append(issued[t],
                                   switch_mode(fmode[t])[Len(issued[t]) + 1]),
                 code |-> IF out = "raise" THEN 500 ELSE 204]
           ELSE ret

\* History of the period since a switch last began on a free server, kept
\* beside FocusBegin: how many switches began in it (counted up to "more
\* than two"), whether every command exited 0, and, while no more than two
\* switches are involved, the requests in the order they reached the manager.
EpochBegin(t, mode) ==
    IF switch_mode(mode) = << >>
    THEN UNCHANGED <<epCalls, epOk, log>>
    ELSE IF InFlight = {}
    THEN epCalls' = 1 /\ epOk' = TRUE /\ log' = << >>
    ELSE /\ epCalls' = IF epCalls < 2 THEN 2 ELSE 3
         /\ log' = IF epCalls < 2 THEN log ELSE << >>
         /\ UNCHANGED epOk

\* The same history, kept beside FocusCmd.
EpochCmd(t, out) ==
    /\ epOk' = (epOk /\ out = "ok")
    /\ log' = IF epCalls <= 2
              THEN Append(log, switch_mode(fmode[t])[Len(issued[t]) + 1])
              ELSE log
    /\ UNCHANGED epCalls

\* History of the switches that ran alone, kept beside FocusBegin.
SoloBegin(t, mode) ==
    IF switch_mode(mode) = << >>
    THEN UNCHANGED <<settled, lastSolo, pred, before>>
    ELSE /\ pred' = IF InFlight = {} THEN lastSolo ELSE NoCall
         /\ before' = <<active[services["comfy"]], active[services["tabby"]]>>
         /\ settled' = "none"
         /\ lastSolo' = NoCall

\* The same history, kept beside FocusCmd.
SoloCmd(t, out) ==
    /\ UNCHANGED <<pred, before>>
    /\ IF fpc'[t] = "idle"
       THEN /\ settled' = IF epCalls = 1 /\ epOk' THEN fmode[t] ELSE "none"
            /\ lastSolo' = IF epCalls = 1
                           THEN [mode |-> fmode[t], issued |-> ret'.issued,
                                 code |-> ret'.code, ok |-> epOk',
                                 active |-> ActiveSet(active')]
                           ELSE NoCall
       ELSE UNCHANGED <<settled, lastSolo>>

\* --------------------------------------------------------- StatusReporter
\* The roles of the /status map, in the order get_status queries them.
statusRoles == <<"comfy", "tabby">>

Backends(a) == <<a[services["comfy"]], a[services["tabby"]]>>

\* Mutant: the query run with the verb "start".
is_active_verb_start == "start"

\* _is_service_active: the verb of its systemctl invocation
is_active_verb == "is-active"

\* Effect on the manager of `systemctl <verb> <svc>` for any verb: only
\* stop and start change a unit.
manager_after(a, verb, svc, out) ==
    IF verb \in {"stop", "start"} THEN systemctl(a, verb, svc, out) ELSE a

\* A /status request is dispatched.
StatusBegin ==
    /\ spc = "idle"
    /\ spc' = statusRoles[1]
    /\ sres' = << >>
    /\ sret' = NoStatus
    /\ seen' = {Backends(active)}
    /\ qtruth' = << >>
    /\ answered' = {}

\* get_status runs its next _is_service_active call.  An OSError of
\* subprocess.call is caught nowhere: Flask answers 500.  After the last
\* call the route returns the map with status 200.
StatusQuery(qout) ==
    /\ spc # "idle"
    /\ LET svc == services[spc]
           res == sres @@ (spc :> is_service_active(active, svc, qout))
       IN IF qout = "raise"
          THEN /\ spc' = "idle"
               /\ sres' = << >>
               /\ sret' = [code |-> 500, map |-> << >>]
               /\ UNCHANGED <<qtruth, answered>>
          ELSE /\ qtruth' = qtruth @@ (spc :> active[svc])
               /\ answered' = IF qout = "answer" THEN answered \cup {spc}
                              ELSE answered
               /\ IF spc = statusRoles[1]
                  THEN /\ spc' = statusRoles[2]
                       /\ sres' = res
                       /\ UNCHANGED sret
                  ELSE /\ spc' = "idle"
                       /\ sres' = << >>
                       /\ sret' = [code |-> 200, map |-> res]
    /\ UNCHANGED seen

\* History of the manager's states during a /status call, kept beside
\* FocusCmd.
SeenCmd ==
    /\ seen' = IF spc # "idle" THEN seen \cup {Backends(active')} ELSE seen
    /\ UNCHANGED <<spc, sres, sret, qtruth, answered>>

\* -------------------------------------------------------------- PortProbe
\* Mutant: a probe that answers True when it raised.
is_port_ready_open(l, port, pout) == pout = "raise" \/ l[port]

\* _is_port_ready: connect_ex(('127.0.0.1', port)) == 0, False on exception
\* ("connect": connect_ex returned, 0 if a listener accepted; "timeout": it
\* returned non-zero after the 1 s timeout; "raise": an exception).
is_port_ready(l, port, pout) == pout = "connect" /\ l[port]

\* Mutant: a port_map with an entry for tabby.
port_map_tabby ==
    [comfy |-> comfy_port, silly |-> silly_tavern_port,
     tabby |-> silly_tavern_port]

\* check_ready: port_map
port_map == [comfy |-> comfy_port, silly |-> silly_tavern_port]

\* Mutant: "silly" is ready only while tabbyapi is active as well.
check_ready_backend(l, service, pout) ==
    /\ service \in DOMAIN port_map
    /\ is_port_ready(l, port_map[service], pout)
    /\ service = "silly" => active[services["tabby"]]

\* check_ready: the "ready" field of the JSON answer for a role name
check_ready(l, service, pout) ==
    IF service \notin DOMAIN port_map
    THEN FALSE
    ELSE is_port_ready(l, port_map[service], pout)

\* The <service> values of /check_ready requests: the roles and any other.
CheckRoles == Roles \cup {"other"}

\* A /check_ready/<service> request is served.  A role without a port is
\* answered before any probe; _is_port_ready catches every exception, so
\* the route returns its JSON with status 200 in every case.  The probe
\* connects and closes: the listener is left as it was.
CheckReady(service, pout) ==
    /\ LET configured == service \in DOMAIN port_map
       IN cret' = [role |-> service, code |-> 200,
                   ready |-> check_ready(listening, service, pout),
                   probed |-> configured,
                   bound |-> configured /\ listening[port_map[service]],
                   pout |-> IF configured THEN pout ELSE "none"]
    /\ UNCHANGED <<listening, built, ctor>>

\* Environment: a service binds its port, or its listener goes away.
EnvListen(p) ==
    /\ listening' = [listening EXCEPT ![p] = ~listening[p]]
    /\ UNCHANGED <<built, ctor, cret>>

\* ------------------------------------------------- switchAndOpen (browser)
\* serviceCheckName
serviceCheckName(mode) == IF mode = "art" THEN "comfy" ELSE "silly"

\* The ports that accept connections t ms after the /focus request returned.
ListeningAt(b, t) == [p \in Ports |-> b[p] # Never /\ b[p] <= t]

\* A button is pressed: switchAndOpen(mode, ...) fetches /focus/<mode>; the
\* request is served by thread 1.
PollClick(mode) ==
    /\ ppc = "idle"
    /\ FocusBegin(1, mode)
    /\ ppc' = "focus"
    /\ pmode' = mode
    /\ UNCHANGED <<listening, bindAt, now, i, serviceReady, pclean, queries>>

\* The fetch of /focus resolves (whatever its status code) and the loop is
\* entered with i = 0.  From here each port binds after its startup time.
PollStart(b) ==
    /\ ppc = "focus"
    /\ fpc[1] = "idle"
    /\ ppc' = "poll"
    /\ i' = 0
    /\ serviceReady' = FALSE
    /\ pclean' = TRUE
    /\ queries' = 0
    /\ now' = 0
    /\ bindAt' = b
    /\ listening' = ListeningAt(b, 0)
    /\ UNCHANGED pmode

\* Mutant: a loop body without the break after a ready answer.
PollAttempt_nobreak(fout, pout) ==
    /\ ppc = "poll"
    /\ i < maxAttempts
    /\ LET ready == fout = "json"
                    /\ check_ready(listening, serviceCheckName(pmode), pout)
       IN /\ serviceReady' = (serviceReady \/ ready)
          /\ i' = i + 1
          /\ ppc' = IF i + 1 >= maxAttempts THEN "open" ELSE "poll"
          /\ pclean' = (pclean /\ fout = "json" /\ pout = "connect")
          /\ queries' = queries + 1
          /\ now' = now + PollIntervalMs
          /\ listening' = ListeningAt(bindAt, now')
    /\ UNCHANGED <<bindAt, pmode>>

\* One pass of the loop body: one /check_ready query, then either
\* serviceReady = true, a 500 ms pause and break, or a 500 ms pause and i++.
\* The loop is left when i reaches maxAttempts.
PollAttempt(fout, pout) ==
    /\ ppc = "poll"
    /\ i < maxAttempts
    /\ LET ready == fout = "json"
                    /\ check_ready(listening, serviceCheckName(pmode), pout)
       IN /\ serviceReady' = ready
          /\ i' = IF ready THEN i ELSE i + 1
          /\ ppc' = IF ready \/ i + 1 >= maxAttempts THEN "open" ELSE "poll"
          /\ pclean' = (pclean /\ fout = "json" /\ pout = "connect")
          /\ queries' = queries + 1
          /\ now' = now + PollIntervalMs
          /\ listening' = ListeningAt(bindAt, now')
    /\ UNCHANGED <<bindAt, pmode>>

\* After the loop: a further pause when the service was never seen ready,
\* then window.open.
PollOpen ==
    /\ ppc = "open"
    /\ ppc' = "done"
    /\ now' = IF serviceReady THEN now ELSE now + PollIntervalMs
    /\ listening' = ListeningAt(bindAt, now')
    /\ UNCHANGED <<bindAt, pmode, i, serviceReady, pclean, queries>>

\* finally: the overlay is hidden, the locals of switchAndOpen are gone and
\* the page waits for the next click, which is observed afresh.
PollReset ==
    /\ ppc = "done"
    /\ ppc' = "idle"
    /\ pmode' = "art"
    /\ i' = 0
    /\ serviceReady' = FALSE
    /\ pclean' = TRUE
    /\ queries' = 0
    /\ now' = 0
    /\ bindAt' = [p \in Ports |-> Never]
    /\ listening' = ListeningAt(bindAt', 0)

\* No request in flight and none served yet.
Idle ==
    /\ fpc = [t \in Threads |-> "idle"]
    /\ fmode = [t \in Threads |-> "none"]
    /\ issued = [t \in Threads |-> << >>]
    /\ ret = NoRet
    /\ log = << >>
    /\ epOk = TRUE
    /\ epCalls = 0
    /\ settled = "none"
    /\ lastSolo = NoCall
    /\ pred = NoCall
    /\ before = <<FALSE, FALSE>>
    /\ spc = "idle"
    /\ sres = << >>
    /\ sret = NoStatus
    /\ seen = {}
    /\ qtruth = << >>
    /\ answered = {}
    /\ bindAt = [p \in Ports |-> Never]
    /\ listening = ListeningAt(bindAt, 0)
    /\ now = 0
    /\ ppc = "idle"
    /\ pmode = "art"
    /\ i = 0
    /\ serviceReady = FALSE
    /\ pclean = TRUE
    /\ queries = 0
    /\ cret = NoReady

\* __init__ runs its one command, _start_service(self.services['silly']).
\* An OSError of subprocess.run leaves __init__: no controller exists and
\* nothing is served.
Construct(out) ==
    /\ ~built
    /\ ctor = << >>
    /\ ctor' = << <<"start", services["silly"]>> >>
    /\ active' = start_service(active, services["silly"], out).active
    /\ built' = (out # "raise")
    /\ UNCHANGED cret

\* The process before the controller is constructed.
PreInit ==
    /\ active \in [ServiceNames -> BOOLEAN]
    /\ built = FALSE
    /\ ctor = << >>
    /\ Idle

Init ==
    /\ active \in [ServiceNames -> BOOLEAN]
    /\ built = TRUE
    /\ ctor = << <<"start", services["silly"]>> >>
    /\ Idle

\* The controller serving /focus requests on all its threads.
Next ==
    \/ \E t \in Threads, mode \in Modes :
          /\ FocusBegin(t, mode) /\ RetBegin(t, mode)
          /\ EpochBegin(t, mode) /\ SoloBegin(t, mode)
          /\ UNCHANGED <<statusVars, pollVars, serverVars>>
    \/ \E t \in Threads, out \in CmdOutcomes :
          /\ FocusCmd(t, out) /\ RetCmd(t, out)
          /\ EpochCmd(t, out) /\ SoloCmd(t, out)
          /\ UNCHANGED <<statusVars, pollVars, serverVars>>

Spec == Init /\ [][Next]_vars

\* The controller serving /status while /focus requests are in flight.
StatusNext ==
    \/ \E t \in Threads, mode \in Modes :
          FocusBegin(t, mode)
          /\ UNCHANGED <<histVars, statusVars, pollVars, serverVars>>
    \/ \E t \in Threads, out \in CmdOutcomes :
          FocusCmd(t, out) /\ SeenCmd
          /\ UNCHANGED <<histVars, pollVars, serverVars>>
    \/ StatusBegin
          /\ UNCHANGED <<active, focusVars, histVars, pollVars, serverVars>>
    \/ \E qout \in QueryOutcomes :
          StatusQuery(qout)
          /\ UNCHANGED <<active, focusVars, histVars, pollVars, serverVars>>

StatusSpec == Init /\ [][StatusNext]_vars

\* The browser's switchAndOpen driving the controller: one click at a time.
PollNext ==
    \/ \E mode \in {"art", "story"} :
          PollClick(mode) /\ UNCHANGED <<histVars, statusVars, serverVars>>
    \/ \E out \in CmdOutcomes :
          FocusCmd(1, out)
          /\ UNCHANGED <<histVars, statusVars, pollVars, serverVars>>
    \/ \E b \in [Ports -> StartupDelays] :
          PollStart(b)
          /\ UNCHANGED <<active, focusVars, histVars, statusVars, serverVars>>
    \/ \E fout \in FetchOutcomes, pout \in ProbeOutcomes :
          PollAttempt(fout, pout)
          /\ UNCHANGED <<active, focusVars, histVars, statusVars, serverVars>>
    \/ PollOpen
          /\ UNCHANGED <<active, focusVars, histVars, statusVars, serverVars>>
    \/ PollReset
          /\ UNCHANGED <<active, focusVars, histVars, statusVars, serverVars>>

PollSpec == Init /\ [][PollNext]_vars

\* The request a thread in flight hands to systemctl next.
NextCmd(t) == switch_mode(fmode[t])[Len(issued[t]) + 1]

\* A step of a /focus call in the serving process.
ServerCmd(t, out) ==
    /\ FocusCmd(t, out)
    /\ UNCHANGED <<histVars, statusVars, pollVars, built, ctor, cret>>

\* A step of a /status call in the serving process: `systemctl is-active`
\* runs against the manager.
StatusStep(qout) ==
    /\ StatusQuery(qout)
    /\ active' = manager_after(active, is_active_verb, services[spc],
                               IF qout = "raise" THEN "raise" ELSE "ok")
    /\ UNCHANGED <<focusVars, histVars, pollVars, built, ctor, cret>>

\* A /check_ready call in the serving process.
ReadyStep(service, pout) ==
    /\ CheckReady(service, pout)
    /\ UNCHANGED <<active, focusVars, histVars, statusVars, bindAt, now, ppc,
                   pmode, i, serviceReady, pclean, queries>>

\* The process from its start: the constructor, then the routes, with one
\* /focus call at a time, while services bind and release their ports.
ServerNext ==
    \/ \E out \in CmdOutcomes :
          Construct(out)
          /\ UNCHANGED <<focusVars, histVars, statusVars, pollVars>>
    \/ \E mode \in Modes :
          /\ built
          /\ FocusBegin(1, mode)
          /\ UNCHANGED <<histVars, statusVars, pollVars, built, ctor, cret>>
    \/ \E out \in CmdOutcomes : built /\ ServerCmd(1, out)
    \/ /\ built
       /\ StatusBegin
       /\ UNCHANGED <<active, focusVars, histVars, pollVars, built, ctor, cret>>
    \/ \E qout \in QueryOutcomes : built /\ StatusStep(qout)
    \/ \E service \in CheckRoles, pout \in ProbeOutcomes :
          built /\ ReadyStep(service, pout)
    \/ \E p \in Ports :
          EnvListen(p)
          /\ UNCHANGED <<active, focusVars, histVars, statusVars, bindAt, now,
                         ppc, pmode, i, serviceReady, pclean, queries>>

ServerSpec == PreInit /\ [][ServerNext]_vars

\* A pass of the polling loop, with any outcome of its query.
PollAttemptStep ==
    \E fout \in FetchOutcomes, pout \in ProbeOutcomes :
        PollAttempt(fout, pout)
        /\ UNCHANGED <<active, focusVars, histVars, statusVars, serverVars>>

\* The step after the loop.
PollOpenStep ==
    PollOpen
          /\ UNCHANGED <<active, focusVars, histVars, statusVars, serverVars>>

\* The same, with the browser's event loop resuming switchAndOpen after
\* each await: a pending pass of the loop, and the step after it, are taken.
PollFairSpec ==
    PollSpec /\ WF_vars(PollAttemptStep) /\ WF_vars(PollOpenStep)

\* ------------------------------------------------------------ properties
StopComfy == <<"stop", "comfyui">>
StopTabby == <<"stop", "tabbyapi">>
StartComfy == <<"start", "comfyui">>
StartTabby == <<"start", "tabbyapi">>
StartSilly == <<"start", "silly-tavern">>

\* C1: every /focus/story call that has returned issued exactly
\* stop(comfyui), start(tabbyapi), start(silly-tavern), in that order,
\* whatever the outcome of each command.
C1_StoryIssuesAllThree ==
    ret.mode = "story" => ret.issued = <<StopComfy, StartTabby, StartSilly>>

\* C2: every /focus/art call that has returned issued stop(tabbyapi) and
\* then start(comfyui), whatever the outcome of the stop.
C2_ArtStopThenStart ==
    ret.mode = "art" => ret.issued = <<StopTabby, StartComfy>>

\* C3: once a switch that ran alone and whose commands all exited 0 has
\* returned, and until the next switch begins, exactly the backend of its
\* mode is active: comfyui and not tabbyapi after art, tabbyapi and not
\* comfyui after story.
C3_Exclusive ==
    /\ settled = "art" => active["comfyui"] /\ ~active["tabbyapi"]
    /\ settled = "story" => active["tabbyapi"] /\ ~active["comfyui"]

\* C3 witness: an all-ok art switch has returned right after an all-ok
\* story switch.
C3_Witness ==
    settled = "art" /\ pred.mode = "story" /\ pred.ok /\ InFlight = {}

C5_PointInTime ==
    (sret.code = 200 /\ answered = {"comfy", "tabby"})
        => <<sret.map["comfy"], sret.map["tabby"]>> \in seen

\* C5 amended: each entry of the returned map equals the manager's state of
\* that service at the instant of that entry's own query when the manager
\* answered it, and is false when the query failed; the two instants differ.
C5_PerEntryInstant ==
    sret.code = 200 =>
        \A r \in {"comfy", "tabby"} :
            sret.map[r] = (r \in answered /\ qtruth[r])

\* C5 witness: a returned map, both queries answered, that matches the
\* manager's state at no instant of the call.
C5_Witness ==
    /\ sret.code = 200
    /\ answered = {"comfy", "tabby"}
    /\ <<sret.map["comfy"], sret.map["tabby"]>> \notin seen

\* C6: an entry that a returned /status map reports true belongs to a query
\* of that call which the manager answered while the service was active.
C6_NeverTrueBeforeActive ==
    sret.code = 200 =>
        \A r \in DOMAIN sret.map :
            sret.map[r] => (r \in answered /\ qtruth[r])

\* C6 witness: a map that reports comfy true, and tabby false although
\* tabbyapi was active, because the query for it failed.
C6_Witness ==
    /\ sret.code = 200
    /\ sret.map["comfy"]
    /\ ~sret.map["tabby"] /\ qtruth["tabby"] /\ "tabby" \notin answered

\* C7: every /status call answers with success and a map that has an
\* entry for comfy and for tabby, false for each role whose query failed.
C7_StatusNeverErrors ==
    sret # NoStatus =>
        /\ sret.code = 200
        /\ DOMAIN sret.map = {"comfy", "tabby"}
        /\ \A r \in {"comfy", "tabby"} : r \notin answered => ~sret.map[r]

\* C8: every /focus call answers with the empty success acknowledgement,
\* whatever the mode and the outcomes of its commands, and a call with a
\* mode other than "art" and "story" issues no request.
C8_FocusAlwaysAcks ==
    ret.mode # "none" =>
        /\ ret.code = 204
        /\ ret.mode \notin {"art", "story"} => ret.issued = << >>

\* The requests of two switches reached the manager as stop(tabbyapi),
\* stop(comfyui) and then the three starts, every command exited 0 and both
\* switches have returned.
RaceDone ==
    /\ InFlight = {}
    /\ epCalls = 2
    /\ epOk
    /\ Len(log) = 5
    /\ log[1] = StopTabby
    /\ log[2] = StopComfy

\* C9: the controller does not serialize switches (a thread that is free
\* can begin a switch while another switch is in flight), and after the
\* interleaving stop(tabbyapi), stop(comfyui), then the starts, with every
\* command succeeding and both calls returned, both backends are active.
C9_Race ==
    /\ \A t \in Threads :
          fpc[t] = "idle" =>
              ENABLED FocusBegin(t, "art") /\ ENABLED FocusBegin(t, "story")
    /\ RaceDone => active["comfyui"] /\ active["tabbyapi"]

\* C9 witness: that interleaving has happened and both backends are active.
C9_Witness ==
    RaceDone /\ active["comfyui"] /\ active["tabbyapi"]

\* The poll has ended for a target whose port bound exactly 3 s after the
\* /focus request returned, and no check_ready query failed.
PollEnded3s ==
    /\ ppc \in {"open", "done"}
    /\ pclean
    /\ bindAt[IF pmode = "art" THEN comfy_port ELSE silly_tavern_port] = 3000

\* C10 as claimed: such a poll reports ready at attempt 6, counting the
\* check_ready queries from 1.
C10_ReadyAtAttempt6 ==
    PollEnded3s => serviceReady /\ i + 1 = 6

\* C10 amended: such a poll reports ready at its seventh check_ready query
\* (loop index i = 6, after six unsuccessful queries and 3000 ms of
\* pauses), and it has not reported ready at any query before.
C10_ReadyAtSeventhQuery ==
    /\ PollEnded3s => serviceReady /\ i = 6 /\ now = 3000 + PollIntervalMs
    /\ (/\ ppc = "poll" /\ pclean
        /\ bindAt[IF pmode = "art" THEN comfy_port ELSE silly_tavern_port] = 3000)
           => ~serviceReady /\ i <= 6

\* C10 witness: such a poll has reported ready.
C10_Witness ==
    PollEnded3s /\ serviceReady /\ ppc = "done" /\ pmode = "story"

\* C11: the poller issues at most 120 check_ready queries and none after
\* the first ready answer, goes on polling after a query that failed, and
\* once the loop is entered it always reaches window.open, with the service
\* seen ready or with the budget of 120 used up.
C11_PollTerminates ==
    /\ [](queries <= 120)
    /\ [](serviceReady => ppc \in {"open", "done"})
    /\ [](ppc = "poll" => i < maxAttempts /\ queries = i)
    /\ [](ppc \in {"open", "done"} => serviceReady \/ queries = 120)
    /\ (ppc = "poll" ~> ppc = "done")

\* C11 witness: the tab is opened after 120 queries, of which some failed,
\* none of them answered ready.
C11_Witness ==
    ppc = "done" /\ ~serviceReady /\ queries = 120 /\ ~pclean

\* C12: a /check_ready request for a role without a configured port (any
\* role but "comfy" and "silly", "tabby" included) is answered with status
\* 200 and ready = false, and no port is probed for it.
C12_UnknownRoleNotReady ==
    cret.code # 0 /\ cret.role \notin {"comfy", "silly"}
    => cret.code = 200 /\ ~cret.ready /\ ~cret.probed

\* C12 witness: "tabby" was answered while both ports accepted connections.
C12_Witness ==
    /\ cret.role = "tabby"
    /\ cret.code = 200
    /\ \A p \in Ports : listening[p]

\* C13: a /check_ready request for "comfy" or "silly" is answered with status
\* 200, and with ready = true exactly when the probe's connection to the
\* role's port (8188 for comfy, 8000 for silly) was accepted: false when
\* nothing listens there, when the connection timed out, when the probe raised.
C13_ReadyIffAccepted ==
    [][cret' # cret /\ cret'.role \in {"comfy", "silly"}
       => /\ cret'.code = 200
          /\ cret'.probed
          /\ cret'.ready
             = (cret'.pout = "connect"
                /\ listening[IF cret'.role = "comfy" THEN 8188 ELSE 8000])]_vars

\* C13 witness: "silly" was answered ready with a listener on its port and
\* none on the other port.
C13_Witness ==
    /\ cret.role = "silly"
    /\ cret.ready
    /\ listening[silly_tavern_port]
    /\ ~listening[comfy_port]

\* C14: a step of a /status or of a /check_ready call leaves every unit's
\* active state, every listener and every /focus call as they were, and the
\* one command such a step runs is neither a stop nor a start.
C14_QueriesChangeNothing ==
    /\ [][spc' # spc \/ cret' # cret
          => active' = active /\ listening' = listening
             /\ focusVars' = focusVars]_vars
    /\ [](is_active_verb \notin {"stop", "start"})

\* C14 witness: /status and /check_ready have both answered while a switch
\* is between its commands and a unit is inactive.
C14_Witness ==
    /\ sret.code = 200
    /\ cret.code = 200
    /\ cret.probed
    /\ fpc[1] = "run"
    /\ issued[1] # << >>
    /\ \E svc \in ServiceNames : ~active[svc]

\* A switch runs with no other switch since it began on a free server, every
\* command so far exited 0, and at most one backend was active when it began.
SoloFromExclusive(t) ==
    /\ fpc[t] = "run"
    /\ epCalls = 1
    /\ epOk
    /\ ~(before[1] /\ before[2])

\* C15: such a switch never has both backends active.  Between its stop and
\* the start that follows, the backend it stops is inactive and the backend
\* it starts is as it was when the switch began: the switch is in the state
\* it ends in if that backend was active already, and else in the state with
\* neither backend active, the one state it passes through that is neither
\* the state it began in nor the state it ends in.
C15_SoloNeverBoth ==
    \A t \in Threads :
        SoloFromExclusive(t)
        => /\ ~(active["comfyui"] /\ active["tabbyapi"])
           /\ Len(issued[t]) = 1
              => IF fmode[t] = "art"
                 THEN ~active["tabbyapi"] /\ active["comfyui"] = before[1]
                 ELSE ~active["comfyui"] /\ active["tabbyapi"] = before[2]

\* C15 witness: an art switch that began with only tabbyapi active is between
\* its stop and its start.
C15_Witness ==
    \E t \in Threads :
        /\ SoloFromExclusive(t)
        /\ fmode[t] = "art"
        /\ before = <<FALSE, TRUE>>
        /\ issued[t] = <<StopTabby>>

\* C16: when every switch has returned, after any number of art and story
\* switches interleaved in any way since the server was last free, all of
\* whose commands exited 0, at least one of comfyui and tabbyapi is active.
C16_NeverBothStopped ==
    InFlight = {} /\ epCalls >= 1 /\ epOk
    => active["comfyui"] \/ active["tabbyapi"]

\* C16 witness: more than two switches overlapped, every command exited 0,
\* all have returned, and exactly one backend is active.
C16_Witness ==
    /\ InFlight = {}
    /\ epCalls = 3
    /\ epOk
    /\ active["comfyui"] # active["tabbyapi"]

\* C17: the constructor issues one request, start silly-tavern, and nothing
\* else; no /focus call has a stop of silly-tavern as its next request; and
\* no step of the constructor or of a /focus, /status or /check_ready call
\* takes silly-tavern from active to inactive.
C17_SillyKept ==
    /\ [](built => ctor # << >>)
    /\ [](ctor # << >> => ctor = <<StartSilly>>)
    /\ [](\A t \in InFlight : NextCmd(t) # <<"stop", "silly-tavern">>)
    /\ [][active["silly-tavern"] => active'["silly-tavern"]]_vars

\* C17 witness: the constructed controller has served /status and
\* /check_ready and is inside an art switch, past its stop, with
\* silly-tavern active and tabbyapi not.
C17_Witness ==
    /\ built
    /\ sret.code = 200
    /\ cret.code = 200
    /\ fpc[1] = "run"
    /\ fmode[1] = "art"
    /\ issued[1] = <<StopTabby>>
    /\ active["silly-tavern"]
    /\ ~active["tabbyapi"]

\* C18: the answers a poll after /focus/story gets are fixed by the time at
\* which port 8000 starts to accept connections, whatever the manager's
\* state and the outcomes of the switch's commands: with no query failing,
\* the i answers before the current attempt were not ready exactly because
\* the port was not bound yet at the last of them, and a ready answer came at
\* the first attempt made once it was bound.
C18_PollSeesOnlyPort ==
    ppc \in {"poll", "open", "done"} /\ pmode = "story" /\ pclean
    => LET b == bindAt[silly_tavern_port]
           unboundAt(k) == b = Never \/ PollIntervalMs * k < b
       IN /\ i > 0 => unboundAt(i - 1)
          /\ serviceReady <=> ppc # "poll" /\ ~unboundAt(i)
          /\ ~serviceReady /\ ppc # "poll" => i = maxAttempts

\* C18 witness: a poll after /focus/story got ready at its first attempt
\* while tabbyapi is not active.
C18_Witness ==
    /\ ppc = "done"
    /\ pmode = "story"
    /\ pclean
    /\ serviceReady
    /\ i = 0
    /\ ~active["tabbyapi"]

====
